---- MODULE Spec2Model ----
(***************************************************************************)
(* Model of methseq.scripts.submit_workflow: staging of the workflow       *)
(* files, submission to the Cromwell server, the polling loop with its     *)
(* KeyboardInterrupt handler, and the collection of the output files.      *)
(*                                                                         *)
(* A path is a sequence of one-character strings ("d/x" is <<"d","/","x">>)*)
(* so that iterating over a Python str yields its characters.              *)
(***************************************************************************)
EXTENDS Integers, Sequences, FiniteSets, TLC

VARIABLES
    pc,           \* position in submit_workflow
    workflow,     \* argument: workflow name
    dont_run,     \* argument
    move,         \* argument
    fs0,          \* the regular files present when the process starts
    fs,           \* the regular files now: path -> content
    imports_file, \* local: result of zip_imports_files, <<>> is None
    workflow_id,  \* local: id returned by client.submit, "none" before
    status,       \* local: last value returned by client.status, "unset" before
    calls,        \* Execution Client calls issued so far: [op, id]
    waits,        \* completed sleep(sleep_time) calls
    outputs,      \* local: values of client.outputs(...), in insertion order
    oi,           \* index of the output being collected (0 before collection)
    files,        \* local: flattened paths of the current output
    fi,           \* index of the next path of files
    events,       \* what the collector did, in order: [kind, path]
    intr,         \* the KeyboardInterrupts delivered: [at, status, polls, id]
    raised,       \* the exception that ended the process, "none" if none
    exit_code,    \* -1 while running
    fq            \* the locals of subset_paired_fastqs, when that runs

vars == <<fq, pc, workflow, dont_run, move, fs0, fs, imports_file, workflow_id,
          status, calls, waits, outputs, oi, files, fi, events, intr, raised,
          exit_code>>

----------------------------------------------------------------------------
(* Bounds *)

MaxPolls == 3
MaxOutputs == 2
MaxInterrupts == 1

----------------------------------------------------------------------------
(* Paths and the local filesystem *)

x == <<"x">>
y == <<"y">>
rx == <<"/", "x">>
dx == <<"d", "/", "x">>
xy == <<"x", "y">>
destination == <<"d">>

SourcePaths == {x, y, rx, dx}

\* The output files that may be absent when the process starts
OptionalPaths == {x, rx, dx}

\* Directories that exist throughout: the working directory, the root and
\* the destination directory (under the names the collector can form).
Dirs == {<<".">>, <<"/">>, <<"d">>, <<"d", "/">>, <<"d", "/", ".">>}

SepIndexes(p) == {i \in 1..Len(p) : p[i] = "/"}

LastSep(p) ==
    IF SepIndexes(p) = {} THEN 0
    ELSE CHOOSE i \in SepIndexes(p) : \A j \in SepIndexes(p) : j <= i

basename(p) == SubSeq(p, LastSep(p) + 1, Len(p))

join(a, b) ==
    IF b # <<>> /\ b[1] = "/" THEN b
    ELSE IF a = <<>> \/ a[Len(a)] = "/" THEN a \o b
    ELSE a \o <<"/">> \o b

exists(f, p) == p \in DOMAIN f \/ p \in Dirs

WriteFile(f, p, c) == [q \in DOMAIN f \cup {p} |-> IF q = p THEN c ELSE f[q]]

RemoveFile(f, p) == [q \in DOMAIN f \ {p} |-> f[q]]

\* shutil.copyfile(src, dst) for an existing src
copyfile(f, src, dst) ==
    IF src = dst THEN [exc |-> "SameFileError", fs |-> f]
    ELSE IF src \in Dirs \/ dst \in Dirs
         THEN [exc |-> "IsADirectoryError", fs |-> f]
    ELSE [exc |-> "none", fs |-> WriteFile(f, dst, f[src])]

\* shutil.move(src, dst) for an existing src
shutil_move(f, src, dst) ==
    IF src \in Dirs \/ dst \in Dirs THEN [exc |-> "Error", fs |-> f]
    ELSE IF src = dst THEN [exc |-> "none", fs |-> f]
    ELSE [exc |-> "none", fs |-> WriteFile(RemoveFile(f, src), dst, f[src])]

----------------------------------------------------------------------------
(* Output descriptors: a str, or a list whose elements are strs or lists   *)
(* of strs.  Every value carries all fields so that values compare.        *)

Str(p) == [isstr |-> TRUE, chars |-> p, elems |-> <<>>]
List(es) == [isstr |-> FALSE, chars |-> <<>>, elems |-> es]
PathElem(p) == [islist |-> FALSE, chars |-> p, sub |-> <<>>]
ListElem(ps) == [islist |-> TRUE, chars |-> <<>>, sub |-> ps]

\* What iterating over one element of a list yields: the members of a list,
\* the one-character strings of a str.
Iterate(e) ==
    IF e.islist THEN e.sub
    ELSE [i \in 1..Len(e.chars) |-> <<e.chars[i]>>]

RECURSIVE chain_from_iterable(_)
chain_from_iterable(es) ==
    IF es = <<>> THEN <<>>
    ELSE Iterate(Head(es)) \o chain_from_iterable(Tail(es))

\* lines 155-160: the files of one output
Normalize(output) ==
    IF output.isstr THEN <<output.chars>>
    ELSE IF \E i \in 1..Len(output.elems) : output.elems[i].islist
         THEN chain_from_iterable(output.elems)
    ELSE [i \in 1..Len(output.elems) |-> output.elems[i].chars]

\* The descriptors the Execution Client may answer with.
Descriptors ==
    { Str(x),
      Str(dx),
      List(<<PathElem(x), PathElem(y)>>),
      List(<<PathElem(y), PathElem(rx)>>),
      List(<<PathElem(rx), ListElem(<<y>>)>>),
      List(<<PathElem(xy), ListElem(<<y>>)>>),
      List(<<ListElem(<<x>>), ListElem(<<y, rx>>)>>) }

OutputMappings ==
    UNION {[1..n -> Descriptors] : n \in 0..MaxOutputs}

----------------------------------------------------------------------------
(* Workflow Registry (methseq.workflows) and Execution Client answers      *)

WorkflowNames == {"wgbs", "picomethyl", "bogus"}

\* workflow -> packaged definition file
WORKFLOW_FILES == [w \in {"wgbs", "picomethyl"} |->
                      IF w = "wgbs" THEN <<"/", "w">> ELSE <<"/", "p">>]

\* workflow -> expected input-document filename
WORKFLOW_INPUT_FILES == [w \in {"wgbs", "picomethyl"} |->
                            IF w = "wgbs" THEN <<"j">> ELSE <<"k">>]

\* workflow -> does the registry list dependent sub-workflows
WORKFLOW_IMPORTS == [w \in {"wgbs", "picomethyl"} |-> w = "wgbs"]

PackagedFiles == {WORKFLOW_FILES[w] : w \in DOMAIN WORKFLOW_FILES}

\* get_workflow_file(workflow): the packaged file, or the unknown-workflow error
get_workflow_file(w) ==
    IF w \in DOMAIN WORKFLOW_FILES
    THEN [exc |-> "none", path |-> WORKFLOW_FILES[w]]
    ELSE [exc |-> "UnknownWorkflowError", path |-> <<>>]

\* zip_imports_files(workflow, destination): path of the archive it wrote,
\* <<>> (None) when the workflow has no imports
zip_imports_files(w, dest) ==
    IF WORKFLOW_IMPORTS[w] THEN join(dest, <<"z">>) ELSE <<>>

RemoteIds == {"id1", "id2"}

Statuses == {"Submitted", "Running", "Succeeded", "Failed", "Aborted", "Other"}

ClientErrors == {"SubmissionError", "StatusError", "OutputsError", "AbortError"}

Call(op, id) == [op |-> op, id |-> id]

Count(op) == Cardinality({i \in 1..Len(calls) : calls[i].op = op})

----------------------------------------------------------------------------
(* Process termination *)

\* exit(code), or an uncaught exception (exit code 1, KeyboardInterrupt 130)
Terminate(code, exc) ==
    /\ pc' = "done"
    /\ exit_code' = code
    /\ raised' = exc

\* subset_paired_fastqs is not running
FqIdle == [pc |-> "idle"]

Init ==
    /\ fq = FqIdle
    /\ pc = "resolve"
    /\ workflow \in WorkflowNames
    /\ dont_run \in BOOLEAN
    /\ move \in BOOLEAN
    /\ \E S \in SUBSET OptionalPaths :
          fs0 = [p \in S \cup {y} \cup PackagedFiles |-> p]
    /\ fs = fs0
    /\ imports_file = <<>>
    /\ workflow_id = "none"
    /\ status = "unset"
    /\ calls = <<>>
    /\ waits = 0
    /\ outputs = <<>>
    /\ oi = 0
    /\ files = <<>>
    /\ fi = 0
    /\ events = <<>>
    /\ intr = <<>>
    /\ raised = "none"
    /\ exit_code = -1

----------------------------------------------------------------------------
(* Staging, lines 111-128 *)

\* Resolve with the input document written before the name is looked up
Resolve_InputsFirst ==
    /\ pc = "resolve"
    /\ fs' = WriteFile(fs, join(destination, <<"i">>), <<"json">>)
    /\ IF get_workflow_file(workflow).exc = "none"
       THEN /\ pc' = "copy_workflow"
            /\ UNCHANGED <<exit_code, raised>>
       ELSE Terminate(1, get_workflow_file(workflow).exc)
    /\ UNCHANGED <<fq, workflow, dont_run, move, fs0, imports_file,
                   workflow_id, status, calls, waits, outputs, oi, files, fi,
                   events, intr>>

\* line 111
Resolve ==
    /\ pc = "resolve"
    /\ IF get_workflow_file(workflow).exc = "none"
       THEN /\ pc' = "copy_workflow"
            /\ UNCHANGED <<exit_code, raised>>
       ELSE Terminate(1, get_workflow_file(workflow).exc)
    /\ UNCHANGED <<fq, workflow, dont_run, move, fs0, fs, imports_file,
                   workflow_id, status, calls, waits, outputs, oi, files, fi,
                   events, intr>>

\* lines 112-115
CopyWorkflowFile ==
    /\ pc = "copy_workflow"
    /\ LET pkg_workflow_file == get_workflow_file(workflow).path
           workflow_file == join(destination, basename(pkg_workflow_file))
       IN  fs' = copyfile(fs, pkg_workflow_file, workflow_file).fs
    /\ pc' = "zip_imports"
    /\ UNCHANGED <<fq, workflow, dont_run, move, fs0, imports_file, workflow_id,
                   status, calls, waits, outputs, oi, files, fi, events, intr,
                   raised, exit_code>>

\* lines 117-119
ZipImports ==
    /\ pc = "zip_imports"
    /\ imports_file' = zip_imports_files(workflow, destination)
    /\ fs' = IF imports_file' # <<>>
             THEN WriteFile(fs, imports_file', <<"zip">>)
             ELSE fs
    /\ pc' = "write_inputs"
    /\ UNCHANGED <<fq, workflow, dont_run, move, fs0, workflow_id, status, calls,
                   waits, outputs, oi, files, fi, events, intr, raised,
                   exit_code>>

\* lines 121-124
WriteInputs ==
    /\ pc = "write_inputs"
    /\ LET inputs_file == join(destination, WORKFLOW_INPUT_FILES[workflow])
       IN  fs' = WriteFile(fs, inputs_file, <<"json">>)
    /\ pc' = "dont_run"
    /\ UNCHANGED <<fq, workflow, dont_run, move, fs0, imports_file, workflow_id,
                   status, calls, waits, outputs, oi, files, fi, events, intr,
                   raised, exit_code>>

\* DontRun with the dont_run flag not looked at
DontRun_Ignored ==
    /\ pc = "dont_run"
    /\ pc' = "submit"
    /\ UNCHANGED <<fq, workflow, dont_run, move, fs0, fs, imports_file,
                   workflow_id, status, calls, waits, outputs, oi, files, fi,
                   events, intr, exit_code, raised>>

\* lines 126-128
DontRun ==
    /\ pc = "dont_run"
    /\ IF dont_run
       THEN Terminate(0, "none")
       ELSE /\ pc' = "submit"
            /\ UNCHANGED <<exit_code, raised>>
    /\ UNCHANGED <<fq, workflow, dont_run, move, fs0, fs, imports_file,
                   workflow_id, status, calls, waits, outputs, oi, files, fi,
                   events, intr>>

----------------------------------------------------------------------------
(* Submission and polling, lines 130-151 *)

\* lines 130-133: client.submit answers with an id, or fails
Submit ==
    /\ pc = "submit"
    /\ calls' = Append(calls, Call("submit", workflow_id))
    /\ \/ /\ \E id \in RemoteIds : workflow_id' = id
          /\ pc' = "announce"
          /\ UNCHANGED <<exit_code, raised>>
       \/ /\ Terminate(1, "SubmissionError")
          /\ UNCHANGED workflow_id
    /\ UNCHANGED <<fq, workflow, dont_run, move, fs0, fs, imports_file, status,
                   waits, outputs, oi, files, fi, events, intr>>

\* lines 135-137
Announce ==
    /\ pc = "announce"
    /\ pc' = "sleep"
    /\ UNCHANGED <<fq, workflow, dont_run, move, fs0, fs, imports_file,
                   workflow_id, status, calls, waits, outputs, oi, files, fi,
                   events, intr, raised, exit_code>>

\* line 141
Sleep ==
    /\ pc = "sleep"
    /\ waits' = waits + 1
    /\ pc' = "status"
    /\ UNCHANGED <<fq, workflow, dont_run, move, fs0, fs, imports_file,
                   workflow_id, status, calls, outputs, oi, files, fi, events,
                   intr, raised, exit_code>>

\* line 142: the request is sent
StatusCall ==
    /\ pc = "status"
    /\ calls' = Append(calls, Call("status", workflow_id))
    /\ pc' = "status_wait"
    /\ UNCHANGED <<fq, workflow, dont_run, move, fs0, fs, imports_file,
                   workflow_id, status, waits, outputs, oi, files, fi, events,
                   intr, raised, exit_code>>

\* StatusReturn with a failed query issued once more before giving up
StatusReturn_Retry ==
    /\ pc = "status_wait"
    /\ \/ /\ \E s \in Statuses :
                /\ Count("status") < MaxPolls \/ s \notin {"Submitted", "Running"}
                /\ status' = s
          /\ pc' = "check"
          /\ UNCHANGED <<calls, exit_code, raised>>
       \/ /\ calls' = Append(calls, Call("status", workflow_id))
          /\ Terminate(1, "StatusError")
          /\ UNCHANGED status
    /\ UNCHANGED <<fq, workflow, dont_run, move, fs0, fs, imports_file,
                   workflow_id, waits, outputs, oi, files, fi, events,
                   intr>>

\* line 142: the answer arrives (the service answers with a terminal status
\* at the latest on poll MaxPolls), or the query fails
StatusReturn ==
    /\ pc = "status_wait"
    /\ \/ /\ \E s \in Statuses :
                /\ Count("status") < MaxPolls \/ s \notin {"Submitted", "Running"}
                /\ status' = s
          /\ pc' = "check"
          /\ UNCHANGED <<exit_code, raised>>
       \/ /\ Terminate(1, "StatusError")
          /\ UNCHANGED status
    /\ UNCHANGED <<fq, workflow, dont_run, move, fs0, fs, imports_file,
                   workflow_id, calls, waits, outputs, oi, files, fi, events,
                   intr>>

\* IsTransient with Aborted taken for a status still in progress
IsTransient_AbortedToo(s) == s = "Submitted" \/ s = "Running" \/ s = "Aborted"

\* line 143: the loop goes on while this holds
IsTransient(s) == s = "Submitted" \/ s = "Running"

\* CheckStatus with the next query made without a new wait
CheckStatus_NoWait ==
    /\ pc = "check"
    /\ pc' = IF IsTransient(status) THEN "status" ELSE "after_loop"
    /\ UNCHANGED <<fq, workflow, dont_run, move, fs0, fs, imports_file,
                   workflow_id, status, calls, waits, outputs, oi, files, fi,
                   events, intr, raised, exit_code>>

\* CheckStatus with a limit of two polls of its own
CheckStatus_GiveUp ==
    /\ pc = "check"
    /\ pc' = IF IsTransient(status) /\ Count("status") < 2
             THEN "sleep" ELSE "after_loop"
    /\ UNCHANGED <<fq, workflow, dont_run, move, fs0, fs, imports_file,
                   workflow_id, status, calls, waits, outputs, oi, files, fi,
                   events, intr, raised, exit_code>>

\* lines 143-145
CheckStatus ==
    /\ pc = "check"
    /\ pc' = IF IsTransient(status) THEN "sleep" ELSE "after_loop"
    /\ UNCHANGED <<fq, workflow, dont_run, move, fs0, fs, imports_file,
                   workflow_id, status, calls, waits, outputs, oi, files, fi,
                   events, intr, raised, exit_code>>

\* IsFailure testing for the one status Failed
IsFailure_OnlyFailed(s) == s = "Failed"

\* IsFailure with the comparison inverted
IsFailure_Inverted(s) == s = "Succeeded"

\* line 146: the condition of exit(1)
IsFailure(s) == s # "Succeeded"

\* lines 146-147
AfterLoop ==
    /\ pc = "after_loop"
    /\ IF IsFailure(status)
       THEN Terminate(1, "none")
       ELSE /\ pc' = "outputs"
            /\ UNCHANGED <<exit_code, raised>>
    /\ UNCHANGED <<fq, workflow, dont_run, move, fs0, fs, imports_file,
                   workflow_id, status, calls, waits, outputs, oi, files, fi,
                   events, intr>>

\* TryPcs with the sleep left outside the try block
TryPcs_NoSleep == {"status", "status_wait", "check", "after_loop"}

\* TryPcs with the try block opened before client.submit
TryPcs_WithSubmit ==
    {"submit", "announce", "sleep", "status", "status_wait", "check",
     "after_loop"}

\* lines 139-148: the positions inside the try block
TryPcs == {"sleep", "status", "status_wait", "check", "after_loop"}

\* A KeyboardInterrupt arrives: caught inside the try block (line 148),
\* uncaught anywhere else.
Interrupt ==
    /\ pc # "done"
    /\ Len(intr) < MaxInterrupts
    /\ intr' = Append(intr, [at |-> pc, status |-> status,
                             polls |-> Count("status"), id |-> workflow_id])
    /\ IF pc \in TryPcs
       THEN /\ pc' = "abort"
            /\ UNCHANGED <<exit_code, raised>>
       ELSE Terminate(130, "KeyboardInterrupt")
    /\ UNCHANGED <<fq, workflow, dont_run, move, fs0, fs, imports_file,
                   workflow_id, status, calls, waits, outputs, oi, files, fi,
                   events>>

\* Abort with a failed client.abort issued a second time
Abort_Retry ==
    /\ pc = "abort"
    /\ \/ /\ calls' = Append(calls, Call("abort", workflow_id))
          /\ Terminate(1, "none")
       \/ /\ calls' = Append(Append(calls, Call("abort", workflow_id)),
                             Call("abort", workflow_id))
          /\ Terminate(1, "AbortError")
    /\ UNCHANGED <<fq, workflow, dont_run, move, fs0, fs, imports_file,
                   workflow_id, status, waits, outputs, oi, files, fi, events,
                   intr>>

\* lines 149-151: client.abort succeeds and exit(1) follows, or it raises
Abort ==
    /\ pc = "abort"
    /\ calls' = Append(calls, Call("abort", workflow_id))
    /\ \/ Terminate(1, "none")
       \/ Terminate(1, "AbortError")
    /\ UNCHANGED <<fq, workflow, dont_run, move, fs0, fs, imports_file,
                   workflow_id, status, waits, outputs, oi, files, fi, events,
                   intr>>

----------------------------------------------------------------------------
(* Collection, lines 153-171 *)

\* line 153: client.outputs answers with a mapping, or fails
Outputs ==
    /\ pc = "outputs"
    /\ calls' = Append(calls, Call("outputs", workflow_id))
    /\ \/ /\ \E m \in OutputMappings : outputs' = m
          /\ oi' = 1
          /\ pc' = "for_output"
          /\ UNCHANGED <<exit_code, raised>>
       \/ /\ Terminate(1, "OutputsError")
          /\ UNCHANGED <<outputs, oi>>
    /\ UNCHANGED <<fq, workflow, dont_run, move, fs0, fs, imports_file,
                   workflow_id, status, waits, files, fi, events, intr>>

\* lines 154-160: next output of the mapping, or the function returns
ForOutput ==
    /\ pc = "for_output"
    /\ IF oi <= Len(outputs)
       THEN /\ files' = Normalize(outputs[oi])
            /\ fi' = 1
            /\ pc' = "for_file"
            /\ UNCHANGED <<exit_code, raised>>
       ELSE /\ Terminate(0, "none")
            /\ UNCHANGED <<files, fi>>
    /\ UNCHANGED <<fq, workflow, dont_run, move, fs0, fs, imports_file,
                   workflow_id, status, calls, waits, outputs, oi, events,
                   intr>>

\* Transfer with the move flag not looked at
Transfer_AlwaysCopy(f, file, destination_file) ==
    copyfile(f, file, destination_file)

\* lines 166-169: the transfer of an existing file
Transfer(f, file, destination_file) ==
    IF move THEN shutil_move(f, file, destination_file)
    ELSE copyfile(f, file, destination_file)

\* lines 163-171: the body of the loop over files, for one file
CollectFile(f, file) ==
    LET destination_file == join(destination, basename(file))
        done == Transfer(f, file, destination_file)
    IN  IF exists(f, file)
        THEN [exc |-> done.exc, fs |-> done.fs,
              event |-> [kind |-> "transfer", path |-> file]]
        ELSE [exc |-> "none", fs |-> f,
              event |-> [kind |-> "missing", path |-> file]]

\* lines 162-171: the loop over the files of one output, run to its end
\* or to the first exception
RECURSIVE CollectFiles(_, _)
CollectFiles(f, fls) ==
    IF fls = <<>> THEN [exc |-> "none", fs |-> f]
    ELSE LET done == CollectFile(f, Head(fls))
         IN  IF done.exc = "none" THEN CollectFiles(done.fs, Tail(fls))
             ELSE [exc |-> done.exc, fs |-> done.fs]

\* lines 154-171: the loop over the outputs, run to its end or to the
\* first exception
RECURSIVE CollectOutputs(_, _)
CollectOutputs(f, outs) ==
    IF outs = <<>> THEN [exc |-> "none", fs |-> f]
    ELSE LET done == CollectFiles(f, Normalize(Head(outs)))
         IN  IF done.exc = "none" THEN CollectOutputs(done.fs, Tail(outs))
             ELSE done

\* lines 162-171: one file of the current output
ForFile ==
    /\ pc = "for_file"
    /\ IF fi > Len(files)
       THEN /\ oi' = oi + 1
            /\ pc' = "for_output"
            /\ UNCHANGED <<fs, fi, events, exit_code, raised>>
       ELSE LET done == CollectFile(fs, files[fi])
            IN  IF done.exc = "none"
                THEN /\ fs' = done.fs
                     /\ events' = Append(events, done.event)
                     /\ fi' = fi + 1
                     /\ UNCHANGED <<pc, oi, exit_code, raised>>
                ELSE /\ Terminate(1, done.exc)
                     /\ UNCHANGED <<fs, fi, oi, events>>
    /\ UNCHANGED <<fq, workflow, dont_run, move, fs0, imports_file, workflow_id,
                   status, calls, waits, outputs, files, intr>>

----------------------------------------------------------------------------

Next ==
    \/ Resolve
    \/ CopyWorkflowFile
    \/ ZipImports
    \/ WriteInputs
    \/ DontRun
    \/ Submit
    \/ Announce
    \/ Sleep
    \/ StatusCall
    \/ StatusReturn
    \/ CheckStatus
    \/ AfterLoop
    \/ Interrupt
    \/ Abort
    \/ Outputs
    \/ ForOutput
    \/ ForFile

\* The steps of the process itself (all but the arrival of an interruption)
Program ==
    \/ Resolve
    \/ CopyWorkflowFile
    \/ ZipImports
    \/ WriteInputs
    \/ DontRun
    \/ Submit
    \/ Announce
    \/ Sleep
    \/ StatusCall
    \/ StatusReturn
    \/ CheckStatus
    \/ AfterLoop
    \/ Abort
    \/ Outputs
    \/ ForOutput
    \/ ForFile

Spec == Init /\ [][Next]_vars

----------------------------------------------------------------------------
(* Vocabulary of the properties *)

Terminal(s) == s \notin {"unset", "Submitted", "Running"}

\* The artifacts staging writes for workflow w
StagedPaths(w) ==
    IF w \in DOMAIN WORKFLOW_FILES
    THEN {join(destination, basename(WORKFLOW_FILES[w])),
          join(destination, <<"z">>),
          join(destination, WORKFLOW_INPUT_FILES[w])}
    ELSE {}

\* No file has been transferred: apart from the staged artifacts the
\* filesystem is the one the process started with.
NothingCollected ==
    /\ events = <<>>
    /\ DOMAIN fs \ StagedPaths(workflow) = DOMAIN fs0
    /\ \A p \in DOMAIN fs0 : fs[p] = fs0[p]

\* One-level flattening that keeps every top-level str whole
RECURSIVE FlattenOneLevel(_)
FlattenOneLevel(es) ==
    IF es = <<>> THEN <<>>
    ELSE (IF Head(es).islist THEN Head(es).sub ELSE <<Head(es).chars>>)
            \o FlattenOneLevel(Tail(es))

Flattened(output) ==
    IF output.isstr THEN <<output.chars>> ELSE FlattenOneLevel(output.elems)

Range(q) == {q[i] : i \in 1..Len(q)}

DeclaredPaths == UNION {Range(Flattened(outputs[i])) : i \in 1..Len(outputs)}

LoopPcs == {"sleep", "status", "status_wait", "check"}

----------------------------------------------------------------------------
(* Properties *)

\* C1: a run with no interruption and no client error whose terminal status
\* is Succeeded calls outputs() exactly once, only after that status was
\* read, and ends with exit code 0.
C1_SucceededExitsZero ==
    /\ Count("outputs") > 0 => status = "Succeeded"
    /\ (pc = "done" /\ status = "Succeeded" /\ intr = <<>>
            /\ raised \notin ClientErrors)
          => (Count("outputs") = 1 /\ exit_code = 0)

\* C2: when the first status outside {Submitted, Running} is not Succeeded,
\* outputs() is never called, no file is transferred and the exit status is
\* non-zero.
C2_FailedStatusCollectsNothing ==
    (Terminal(status) /\ status # "Succeeded")
       => /\ Count("outputs") = 0
          /\ NothingCollected
          /\ pc = "done" => exit_code # 0

C2_Witness ==
    /\ pc = "done"
    /\ status = "Other"
    /\ intr = <<>>
    /\ Count("status") = 2
    /\ exit_code = 1

\* C3: a single interruption delivered inside the polling loop (in the wait,
\* the status query or its test) leads to exactly one abort() with the id
\* submit() returned, no status() call after the interruption, no outputs()
\* call and a non-zero exit.
C3_InterruptInLoopAbortsOnce ==
    (Len(intr) = 1 /\ intr[1].at \in LoopPcs)
       => /\ Count("status") = intr[1].polls
          /\ Count("outputs") = 0
          /\ pc \in {"abort", "done"}
          /\ pc = "done"
                => /\ Count("abort") = 1
                   /\ calls[Len(calls)] = Call("abort", workflow_id)
                   /\ workflow_id \in RemoteIds
                   /\ exit_code # 0

C3_Witness ==
    /\ pc = "done"
    /\ Len(intr) = 1
    /\ intr[1].at = "sleep"
    /\ intr[1].polls = 2
    /\ Count("abort") = 1

\* C4: once status() has returned a value that is neither Submitted nor
\* Running, the recorded status never changes and status() is never called
\* again.
C4_TerminalAbsorbing ==
    [][Terminal(status)
          => (status' = status /\ Count("status")' = Count("status"))]_vars

C4_Witness ==
    /\ pc = "done"
    /\ status = "Aborted"
    /\ Count("status") = 2
    /\ intr = <<>>

\* C5: the files of every output are its one-level flattening in order,
\* every top-level plain path staying one element.
C5_FlattenOneLevel ==
    pc = "for_file" => files = Flattened(outputs[oi])

\* C6: when collection runs uninterrupted, every declared path that exists
\* is transferred under its base name, every missing one is noticed, and
\* the run exits 0.
C6_MissingNeverStops ==
    (pc = "done" /\ oi > 0 /\ intr = <<>>)
       => /\ exit_code = 0
          /\ \A p \in DeclaredPaths :
                IF p \in DOMAIN fs0
                THEN /\ [kind |-> "transfer", path |-> p] \in Range(events)
                     /\ join(destination, basename(p)) \in DOMAIN fs
                ELSE \/ [kind |-> "missing", path |-> p] \in Range(events)
                     \/ [kind |-> "transfer", path |-> p] \in Range(events)

\* C7: for a workflow name the Registry does not hold nothing is written,
\* no Execution Client operation is invoked, and the process ends with the
\* unknown-workflow error.
C7_UnknownWorkflowWritesNothing ==
    workflow \notin DOMAIN WORKFLOW_FILES
       => /\ fs = fs0
          /\ calls = <<>>
          /\ pc \in {"resolve", "done"}
          /\ pc = "done" => exit_code # 0
          /\ (pc = "done" /\ intr = <<>>) => raised = "UnknownWorkflowError"

C7_Witness ==
    /\ workflow \notin DOMAIN WORKFLOW_FILES
    /\ pc = "done"
    /\ raised = "UnknownWorkflowError"
    /\ exit_code = 1

\* C8: status(), abort() and outputs() are called only after submit() has
\* returned an id and always with that id; when submit() fails none of them
\* is ever called and the exit status is non-zero.
C8_NoTrackingBeforeSubmit ==
    /\ \A i \in 1..Len(calls) :
          calls[i].op # "submit"
             => /\ i > 1
                /\ calls[1].op = "submit"
                /\ workflow_id \in RemoteIds
                /\ calls[i].id = workflow_id
    /\ workflow_id = "none" => status = "unset"
    /\ raised = "SubmissionError"
          => /\ calls = <<Call("submit", "none")>>
             /\ pc = "done"
             /\ exit_code # 0

C8_Witness ==
    /\ pc = "done"
    /\ raised = "SubmissionError"
    /\ Len(calls) = 1

\* C9: a single interruption delivered after submit() returned an id and
\* before a terminal status was read is followed by exactly one abort()
\* before the process ends.
C9_NeverAbandoned ==
    (pc = "done" /\ Len(intr) = 1 /\ intr[1].id # "none"
        /\ ~Terminal(intr[1].status) /\ intr[1].at # "abort")
       => Count("abort") = 1

\* C10: when the abort() call made on cancellation fails it is not issued
\* again, no status() or outputs() call follows it, and the process ends
\* with a non-zero status.
C10_AbortBestEffort ==
    raised = "AbortError"
       => /\ pc = "done"
          /\ Count("abort") = 1
          /\ calls[Len(calls)].op = "abort"
          /\ Count("outputs") = 0
          /\ exit_code # 0

C10_Witness ==
    /\ raised = "AbortError"
    /\ pc = "done"
    /\ Len(intr) = 1
    /\ Count("abort") = 1


\* C11: a failure of submit() or of a status() query ends the invocation at
\* once: the failed operation is not issued again, no status() or outputs()
\* call follows, nothing is collected and the exit status is non-zero.
C11_NoRetry ==
    raised \in {"SubmissionError", "StatusError"}
       => /\ pc = "done"
          /\ exit_code # 0
          /\ Count("submit") = 1
          /\ Count("status") <= waits
          /\ calls[Len(calls)].op =
                (IF raised = "SubmissionError" THEN "submit" ELSE "status")
          /\ Count("outputs") = 0
          /\ NothingCollected

C11_Witness ==
    /\ raised = "StatusError"
    /\ pc = "done"
    /\ Count("status") = 2
    /\ exit_code = 1


\* The artifacts staging has to write for workflow w: the definition copy,
\* the input document, and the imports archive when w has imports.
StagedArtifacts(w) ==
    {join(destination, basename(WORKFLOW_FILES[w])),
     join(destination, WORKFLOW_INPUT_FILES[w])}
       \cup (IF WORKFLOW_IMPORTS[w] THEN {join(destination, <<"z">>)} ELSE {})

StagingPcs ==
    {"resolve", "copy_workflow", "zip_imports", "write_inputs", "dont_run"}

\* C14: no Execution Client operation occurs during staging; when submit()
\* is invoked the definition copy, the imports archive (if any) and the
\* input document are already in the destination; with dont_run the process
\* stops after staging (exit 0) without any Execution Client call.
C14_StagingPrecedesSubmission ==
    /\ pc \in StagingPcs => calls = <<>>
    /\ dont_run => calls = <<>>
    /\ calls # <<>>
          => /\ StagedArtifacts(workflow) \subseteq DOMAIN fs
             /\ (imports_file # <<>>) = WORKFLOW_IMPORTS[workflow]
    /\ (dont_run /\ pc = "done" /\ intr = <<>>
           /\ workflow \in DOMAIN WORKFLOW_FILES)
          => /\ exit_code = 0
             /\ StagedArtifacts(workflow) \subseteq DOMAIN fs

C14_Witness ==
    /\ dont_run
    /\ workflow = "wgbs"
    /\ pc = "done"
    /\ exit_code = 0
    /\ calls = <<>>
    /\ StagedArtifacts(workflow) \subseteq DOMAIN fs


\* C15: waits and status() calls alternate, starting with a wait: a status()
\* call is made only when one more wait than status() calls has completed,
\* and a wait is started only when as many waits as status() calls have
\* completed; so the k-th status() call follows exactly k waits.
C15_WaitBeforeEveryStatus ==
    /\ [](Count("status") <= waits /\ waits <= Count("status") + 1)
    /\ [][/\ Count("status")' # Count("status")
                => /\ Count("status")' = Count("status") + 1
                   /\ waits' = waits
                   /\ waits = Count("status") + 1
          /\ waits' # waits
                => /\ waits' = waits + 1
                   /\ Count("status")' = Count("status")
                   /\ waits = Count("status")]_vars

C15_Witness ==
    /\ pc = "done"
    /\ Count("status") = 3
    /\ waits = 3
    /\ intr = <<>>


\* C18 as stated: once status() has returned Succeeded abort() is never
\* called, whatever interruption arrives before the try block is left.
C18_SucceededNeverAborted ==
    status = "Succeeded" => Count("abort") = 0

\* C18 as amended: once status() has returned Succeeded, a run that is not
\* interrupted never calls abort() and calls outputs() once it has left the
\* try block; an interruption that arrives after that status read while
\* the try block is not yet left (lines 143-147) is handled like any
\* other: one abort() call, no outputs() call, non-zero exit.
C18_SucceededCollectsUnlessInterrupted ==
    /\ (status = "Succeeded" /\ intr = <<>>)
          => /\ Count("abort") = 0
             /\ pc \in {"for_output", "for_file", "done"}
                   => Count("outputs") = 1
    /\ (status = "Succeeded" /\ Count("abort") > 0)
          => /\ intr[1].at \in {"check", "after_loop"}
             /\ intr[1].status = "Succeeded"
             /\ Count("abort") = 1
             /\ Count("outputs") = 0
             /\ pc = "done"
             /\ exit_code # 0
    /\ (Len(intr) = 1 /\ intr[1].status = "Succeeded"
           /\ intr[1].at \in {"check", "after_loop"} /\ pc = "done")
          => Count("abort") = 1

C18_Witness ==
    /\ status = "Succeeded"
    /\ pc = "done"
    /\ Len(intr) = 1
    /\ intr[1].at = "check"
    /\ Count("abort") = 1
    /\ Count("outputs") = 0


InDestination(p) == Len(p) > 2 /\ p[1] = "d" /\ p[2] = "/"

DestinationContents(f) == [p \in {q \in DOMAIN f : InDestination(q)} |-> f[p]]

\* C12: after a copy-mode collection that completed, collecting the same
\* outputs mapping once more completes without error and leaves the
\* contents of the destination directory as they were.
C12_CopyCollectionIdempotent ==
    (pc = "done" /\ exit_code = 0 /\ oi > 0 /\ ~move)
       => /\ CollectOutputs(fs, outputs).exc = "none"
          /\ DestinationContents(CollectOutputs(fs, outputs).fs)
                = DestinationContents(fs)


RECURSIVE DeclaredSequence(_)
DeclaredSequence(outs) ==
    IF outs = <<>> THEN <<>>
    ELSE Flattened(Head(outs)) \o DeclaredSequence(Tail(outs))

EventPaths == [i \in 1..Len(events) |-> events[i].path]

\* C13: when collection has run to its end, the paths transferred or
\* reported missing are, in order, the flattened paths of the outputs in
\* the order of the mapping: none reordered, skipped or processed twice.
C13_InsertionOrder ==
    (pc = "done" /\ oi > 0 /\ exit_code = 0)
       => EventPaths = DeclaredSequence(outputs)


\* A step of the loop over files that handles files[fi]
HandlesFile == pc = "for_file" /\ fi <= Len(files) /\ intr' = intr

OthersUnchanged(file, dest) ==
    \A q \in (DOMAIN fs \cup DOMAIN fs') \ {file, dest} :
        q \in DOMAIN fs /\ q \in DOMAIN fs' /\ fs'[q] = fs[q]

\* C17 as stated: handling an existing file leaves the source in place and
\* unchanged in copy mode and removes it in move mode; in both modes the
\* destination then holds a file of the source's base name and content;
\* handling a path that does not exist changes nothing.
C17_ModeChangesSourceOnly ==
    [][HandlesFile
          => LET file == files[fi]
                 dest == join(destination, basename(file))
             IN  /\ file \in DOMAIN fs
                       => /\ dest \in DOMAIN fs' /\ fs'[dest] = fs[file]
                          /\ move => file \notin DOMAIN fs'
                          /\ ~move => (file \in DOMAIN fs' /\ fs'[file] = fs[file])
                          /\ OthersUnchanged(file, dest)
                 /\ ~exists(fs, file) => fs' = fs]_vars

\* C17 as amended: the same, except that in move mode a source that already
\* is the destination path stays in place (the filesystem is unchanged).
C17_ModeChangesSourceUnlessSame ==
    [][HandlesFile
          => LET file == files[fi]
                 dest == join(destination, basename(file))
             IN  /\ file \in DOMAIN fs
                       => /\ dest \in DOMAIN fs' /\ fs'[dest] = fs[file]
                          /\ (move /\ file # dest) => file \notin DOMAIN fs'
                          /\ (move /\ file = dest) => fs' = fs
                          /\ ~move => (file \in DOMAIN fs' /\ fs'[file] = fs[file])
                          /\ OthersUnchanged(file, dest)
                 /\ ~exists(fs, file) => fs' = fs]_vars

C17_Witness ==
    /\ move
    /\ x \in DOMAIN fs0
    /\ [kind |-> "transfer", path |-> x] \in Range(events)
    /\ [kind |-> "transfer", path |-> dx] \in Range(events)
    /\ x \notin DOMAIN fs
    /\ dx \in DOMAIN fs
    /\ fs[dx] = fs0[x]


\* The declared paths of base name b that exist when the process starts
SameNamePaths(b) ==
    {p \in Range(DeclaredSequence(outputs)) \cap DOMAIN fs0 : basename(p) = b}

\* The transfers of paths of base name b, as positions in events
TransfersOf(b) ==
    {i \in 1..Len(events) :
        events[i].kind = "transfer" /\ basename(events[i].path) = b}

LastTransferOf(b) ==
    events[CHOOSE i \in TransfersOf(b) : \A j \in TransfersOf(b) : j <= i].path

\* C19: when several existing output paths share a base name, an
\* uninterrupted collection does not fail, and the destination ends with a
\* file of that name whose content is that of the last of them transferred.
C19_LastWriterWins ==
    \A b \in {basename(p) : p \in SourcePaths} :
        (pc = "done" /\ oi > 0 /\ intr = <<>>
            /\ Cardinality(SameNamePaths(b)) >= 2)
           => /\ exit_code = 0
              /\ TransfersOf(b) # {}
              /\ join(destination, b) \in DOMAIN fs
              /\ LastTransferOf(b) # join(destination, b)
                    => fs[join(destination, b)] = fs0[LastTransferOf(b)]


\* The process is single-threaded and blocking: it always takes its next
\* step, and every wait and every request comes back.
\* Liveness is checked for one workflow and one filesystem.
LiveInit ==
    /\ Init
    /\ workflow = "wgbs"
    /\ ~dont_run
    /\ DOMAIN fs0 = SourcePaths \cup PackagedFiles

LiveSpec == LiveInit /\ [][Next]_vars /\ WF_vars(Program)

\* C16: the engine leaves the polling loop only on a terminal status: a
\* run without interruption or error never ends, and never calls abort(),
\* while the last status read is Submitted or Running; after each such
\* status it polls again; and once a terminal status has been read the
\* process eventually terminates.
C16_PollsUntilTerminal ==
    /\ []((pc = "done" /\ workflow_id # "none" /\ intr = <<>>
              /\ raised = "none") => Terminal(status))
    /\ [](Count("abort") > 0 => intr # <<>>)
    /\ (pc = "check" /\ IsTransient(status))
          ~> (pc = "status_wait" \/ intr # <<>>)
    /\ Terminal(status) ~> (pc = "done")

C16_Witness ==
    /\ pc = "done"
    /\ Count("status") = MaxPolls
    /\ status = "Succeeded"
    /\ intr = <<>>
    /\ exit_code = 0


----------------------------------------------------------------------------
(* subset_paired_fastqs, lines 21-95.  A FASTQ file is its number of       *)
(* lines; a line is named by its number, so a destination is the sequence  *)
(* of the line numbers written to it.                                      *)

MaxReads == 3

Percentages == {0, 10, 34, 50, 100}

\* lines 21-24: i is unbound when the file has no line
count_fastq_reads(lines) ==
    IF lines = 0 THEN [exc |-> "UnboundLocalError", n |-> 0]
    ELSE [exc |-> "none", n |-> lines \div 4]

RECURSIVE Sorted(_)
Sorted(T) ==
    IF T = {} THEN <<>>
    ELSE LET least == CHOOSE t \in T : \A u \in T : t <= u
         IN  <<least>> \o Sorted(T \ {least})

\* line 57-58: sample(range(num_reads), k), sorted
Samples(num_reads, k) ==
    {Sorted(T) : T \in {U \in SUBSET (0..num_reads - 1) : Cardinality(U) = k}}

\* four readline() calls from position pos
FourLines(pos) == <<pos + 1, pos + 2, pos + 3, pos + 4>>

main_parked ==
    /\ pc = "done"
    /\ workflow = "wgbs"
    /\ dont_run = TRUE
    /\ move = FALSE
    /\ fs0 = [p \in PackagedFiles |-> p]
    /\ fs = fs0
    /\ imports_file = <<>>
    /\ workflow_id = "none"
    /\ status = "unset"
    /\ calls = <<>>
    /\ waits = 0
    /\ outputs = <<>>
    /\ oi = 0
    /\ files = <<>>
    /\ fi = 0
    /\ events = <<>>
    /\ intr = <<>>
    /\ raised = "none"
    /\ exit_code = 0

main_vars == <<pc, workflow, dont_run, move, fs0, fs, imports_file,
               workflow_id, status, calls, waits, outputs, oi, files, fi,
               events, intr, raised, exit_code>>

FqInit ==
    /\ main_parked
    /\ \E l1 \in 0..(4 * MaxReads), l2 \in 0..(4 * MaxReads),
          p \in Percentages :
          fq = [pc |-> "count", lines_1 |-> l1, lines_2 |-> l2,
                percentage |-> p, num_reads |-> 0, num_subset_reads |-> 0,
                random_reads |-> <<>>, next_read |-> 0, read_count |-> 0,
                pos_1 |-> 0, pos_2 |-> 0,
                destination_1 |-> <<>>, destination_2 |-> <<>>,
                exc |-> "none"]

FqRaise(exc) == fq' = [fq EXCEPT !.pc = "done", !.exc = exc]

\* lines 36-53
FqCount ==
    /\ fq.pc = "count"
    /\ LET c1 == count_fastq_reads(fq.lines_1)
           c2 == count_fastq_reads(fq.lines_2)
       IN  IF c1.exc # "none" THEN FqRaise(c1.exc)
           ELSE IF c2.exc # "none" THEN FqRaise(c2.exc)
           ELSE IF c1.n # c2.n THEN FqRaise("Exception")
           ELSE fq' = [fq EXCEPT !.pc = "sample", !.num_reads = c1.n]
    /\ UNCHANGED main_vars

\* lines 55-67
FqSample ==
    /\ fq.pc = "sample"
    /\ LET k == (fq.num_reads * fq.percentage) \div 100
       IN  \E r \in Samples(fq.num_reads, k) :
              fq' = [fq EXCEPT !.pc = "loop", !.num_subset_reads = k,
                               !.random_reads = r]
    /\ UNCHANGED main_vars

\* lines 70-93: one iteration of the loop over the reads
FqLoop ==
    /\ fq.pc = "loop"
    /\ IF fq.read_count >= fq.num_reads
       THEN fq' = [fq EXCEPT !.pc = "close"]
       ELSE IF fq.next_read + 1 > Len(fq.random_reads)
       THEN FqRaise("IndexError")
       ELSE IF fq.read_count = fq.random_reads[fq.next_read + 1]
       THEN fq' = [fq EXCEPT
                     !.destination_1 = @ \o FourLines(fq.pos_1),
                     !.destination_2 = @ \o FourLines(fq.pos_2),
                     !.pos_1 = @ + 4,
                     !.pos_2 = @ + 4,
                     !.next_read = @ + 1,
                     !.read_count =
                        IF fq.next_read + 1 = fq.num_subset_reads
                        THEN @ ELSE @ + 1,
                     !.pc =
                        IF fq.next_read + 1 = fq.num_subset_reads
                        THEN "close" ELSE "loop"]
       ELSE fq' = [fq EXCEPT !.pos_1 = @ + 4, !.pos_2 = @ + 4,
                             !.read_count = @ + 1]
    /\ UNCHANGED main_vars

\* lines 94-95
FqClose ==
    /\ fq.pc = "close"
    /\ fq' = [fq EXCEPT !.pc = "done"]
    /\ UNCHANGED main_vars

FqNext ==
    \/ FqCount
    \/ FqSample
    \/ FqLoop
    \/ FqClose

FqSpec == FqInit /\ [][FqNext]_vars

\* The lines of the reads at positions r[1], r[2], ... (counted from 0)
RECURSIVE LinesOfReads(_)
LinesOfReads(r) ==
    IF r = <<>> THEN <<>>
    ELSE FourLines(4 * Head(r)) \o LinesOfReads(Tail(r))

\* C20: with equal read counts n the function ends without error having
\* written floor(n * percentage / 100) four-line records to each
\* destination, those of the same read positions of R1 and R2 in increasing
\* order; with different read counts it raises and writes nothing.
C20_SubsetPairedFastqs ==
    fq.pc = "done"
       => LET n1 == fq.lines_1 \div 4
              n2 == fq.lines_2 \div 4
          IN  IF n1 = n2
              THEN /\ fq.exc = "none"
                   /\ Len(fq.random_reads) = (n1 * fq.percentage) \div 100
                   /\ \A i \in 1..Len(fq.random_reads) - 1 :
                         fq.random_reads[i] < fq.random_reads[i + 1]
                   /\ fq.destination_1 = LinesOfReads(fq.random_reads)
                   /\ fq.destination_2 = LinesOfReads(fq.random_reads)
              ELSE /\ fq.exc # "none"
                   /\ fq.destination_1 = <<>>
                   /\ fq.destination_2 = <<>>

====
